---- MODULE Spec2Model ----
(***************************************************************************)
(* MIFARE Classic 1K card reader (src/src/nfc_reader/do_card.py).          *)
(*                                                                         *)
(* The module models                                                       *)
(*   - doTransmit, the only place that calls connection.transmit;          *)
(*   - dump_mifare_1k, the per-sector load key / authenticate / read loop  *)
(*     that fills a dumpMifare_1k object;                                  *)
(*   - parseAccessBits, the access-control-bits decoder.                   *)
(*                                                                         *)
(* Python values whose type matters to the control flow (the result of     *)
(* doTransmit is either a 2-tuple or a bare bool) are modelled as tagged   *)
(* records, so that truthiness tests and tuple unpacking behave as they do *)
(* in the interpreter.                                                     *)
(***************************************************************************)
EXTENDS Integers, Sequences, FiniteSets, TLC

(***************************************************************************)
(* Program constants                                                       *)
(***************************************************************************)
MIFARE_1K_blocks_per_sector == 4
MIFARE_1K_total_sectors == 16
MIFARE_1K_bytes_per_block == 16
MIFARE_1K_bytes_per_key == 6
MIFARE_1K_default_key == [i \in 1..MIFARE_1K_bytes_per_key |-> 255]

\* status word bytes of a successful APDU exchange
SW1_OK == 144
SW2_OK == 0

(***************************************************************************)
(* Bounds of the model                                                     *)
(***************************************************************************)
\* how many times, during one dump, the transport may deviate from the
\* nominal answer of the card (raise, bad status word, short response)
MaxFaults == 1

Sectors == 0..(MIFARE_1K_total_sectors - 1)
Blocks == 0..(MIFARE_1K_blocks_per_sector - 1)

(***************************************************************************)
(* Python values                                                           *)
(***************************************************************************)
PyBool(b) == [type |-> "bool", val |-> b]
PyNone == [type |-> "NoneType"]
PyList(xs) == [type |-> "list", items |-> xs]
PyTuple(xs) == [type |-> "tuple", items |-> xs]
PyStr(s) == [type |-> "str", val |-> s]

\* d.get(k): the value stored under k, None when k is not a key of d
DictGet(d, k) == IF k \in DOMAIN d THEN d[k] ELSE PyNone

\* bool(v): what `if v` / `not v` test
Truthy_Always(v) == TRUE

Truthy(v) ==
    CASE v.type = "bool" -> v.val
      [] v.type = "NoneType" -> FALSE
      [] v.type = "list" -> Len(v.items) > 0
      [] v.type = "tuple" -> Len(v.items) > 0

\* `a, b = v` succeeds for a 2-element sequence and raises TypeError for a bool
CanUnpack2(v) == v.type \in {"tuple", "list"} /\ Len(v.items) = 2

\* xs[a:b] on a list or bytearray (0-based, never raises)
Slice(xs, a, b) ==
    LET hi == IF b < Len(xs) THEN b ELSE Len(xs)
    IN  IF a >= hi THEN <<>> ELSE [i \in 1..(hi - a) |-> xs[a + i]]

\* xs[i] raises IndexError unless 0 <= i < len(xs)
CanIndex(xs, i) == i >= 0 /\ i < Len(xs)

Zeros(n) == [i \in 1..n |-> 0]

(***************************************************************************)
(* Integer arithmetic on bytes, as the interpreter does it                 *)
(***************************************************************************)
Pow2(n) == 2 ^ n
Shr(x, n) == x \div Pow2(n)
Shl(x, n) == x * Pow2(n)
BitOf(x, i) == Shr(x, i) % 2

RECURSIVE BitwiseAnd(_, _)
BitwiseAnd(a, b) ==
    IF a = 0 \/ b = 0 THEN 0
    ELSE (IF a % 2 = 1 /\ b % 2 = 1 THEN 1 ELSE 0) + 2 * BitwiseAnd(a \div 2, b \div 2)

RECURSIVE BitwiseOr(_, _)
BitwiseOr(a, b) ==
    IF a = 0 THEN b
    ELSE IF b = 0 THEN a
    ELSE (IF a % 2 = 1 \/ b % 2 = 1 THEN 1 ELSE 0) + 2 * BitwiseOr(a \div 2, b \div 2)

RECURSIVE BitwiseXor(_, _)
BitwiseXor(a, b) ==
    IF a = 0 THEN b
    ELSE IF b = 0 THEN a
    ELSE (IF (a % 2) # (b % 2) THEN 1 ELSE 0) + 2 * BitwiseXor(a \div 2, b \div 2)

\* a Python bool used as an integer operand (True is 1, False is 0)
BoolAsInt(p) == IF p THEN 1 ELSE 0

(***************************************************************************)
(* parseAccessBits: one code per block of the sector, from access bytes    *)
(* b6 and b7.  The middle operand is the comparison the source writes,     *)
(* `(bit) < 1`, not a shift.  The result is indexed by block number 0..3.  *)
(***************************************************************************)
parseAccessBits_shift3(b6, b7) ==
    LET x6 == BitwiseXor(b6, 255)
        x7 == BitwiseXor(b7, 255)
    IN  [i \in Blocks |->
            BitwiseOr(BitwiseOr(Shl(BitwiseAnd(Shr(x6, i), 1), 3),
                                BoolAsInt(BitwiseAnd(Shr(x7, i), 1) < 1)),
                      BitwiseAnd(Shr(x7, 4 + i), 1))]

parseAccessBits(b6, b7) ==
    LET x6 == BitwiseXor(b6, 255)
        x7 == BitwiseXor(b7, 255)
    IN  [i \in Blocks |->
            BitwiseOr(BitwiseOr(Shl(BitwiseAnd(Shr(x6, i), 1), 2),
                                BoolAsInt(BitwiseAnd(Shr(x7, i), 1) < 1)),
                      BitwiseAnd(Shr(x7, 4 + i), 1))]

(***************************************************************************)
(* accessBitsToStr: the permission string of each block of a sector, from  *)
(* the 3 access bytes of its trailer                                       *)
(***************************************************************************)
bitAccessMap_noEntry101 ==
    (0 :> PyStr("R(A,B) W(A,B) I(A,B) D(A,B)"))
    @@ (1 :> PyStr("R(A,B) W(B,B) I(-) D(-)"))
    @@ (2 :> PyStr("R(A,B) W(B) I(A,B) D(A,B)"))
    @@ (3 :> PyStr("R(B) W(B) I(-) D(-)"))
    @@ (4 :> PyStr("R(A,B) W(B) I(A,B) D(A,B)"))
    @@ (6 :> PyStr("R(A,B) W(-,B) I(-) D(-)"))
    @@ (7 :> PyStr("R(A,B) W(-) I(-) D(-)"))

bitAccessMap ==
    (0 :> PyStr("R(A,B) W(A,B) I(A,B) D(A,B)"))
    @@ (1 :> PyStr("R(A,B) W(B,B) I(-) D(-)"))
    @@ (2 :> PyStr("R(A,B) W(B) I(A,B) D(A,B)"))
    @@ (3 :> PyStr("R(B) W(B) I(-) D(-)"))
    @@ (4 :> PyStr("R(A,B) W(B) I(A,B) D(A,B)"))
    @@ (5 :> PyStr("R(B) W(-) I(-,B) D(-,B)"))
    @@ (6 :> PyStr("R(A,B) W(-,B) I(-) D(-)"))
    @@ (7 :> PyStr("R(A,B) W(-) I(-) D(-)"))

accessBitsToStr_usesThirdByte(accessBytes) ==
    LET codes == parseAccessBits(accessBytes[2], accessBytes[3])
    IN  [i \in Blocks |-> DictGet(bitAccessMap, codes[i])]

\* accessBytes is a sequence; accessBytes[0] and accessBytes[1] of the source
\* are its first and second element
accessBitsToStr(accessBytes) ==
    LET codes == parseAccessBits(accessBytes[1], accessBytes[2])
    IN  [i \in Blocks |-> DictGet(bitAccessMap, codes[i])]

(***************************************************************************)
(* State                                                                   *)
(***************************************************************************)
VARIABLES
    dump,             \* the dumpMifare_1k object being filled
    firstSectorOnly,  \* argument of dump_mifare_1k
    keyA,             \* argument of dump_mifare_1k
    pc,               \* position of dump_mifare_1k
    iSector,          \* loop variable of the sector loop
    iBlock,           \* loop variable of the block loop
    failCount,        \* local of dump_mifare_1k
    totalFailCount,   \* local of dump_mifare_1k
    faults,           \* how often the transport has misbehaved so far
    sent,             \* per sector iteration, the frames given to transmit
    lastCall,         \* the latest doTransmit call and what its caller did
    b6, b7,           \* arguments of parseAccessBits
    blockAcess,       \* result of parseAccessBits, <<>> before the call
    b8,               \* third access byte, with b6 and b7 the argument of accessBitsToStr
    resultStrBlocks,  \* result of accessBitsToStr, <<>> before the call
    mainPc,           \* position of the main thread in startObserver
    obsPc,            \* position of the thread that runs observerThread
    n,                \* local of observerThread: polling cycles left
    processedEvent,   \* observer.processedEvent, TRUE when set
    registered,       \* the observer is in the monitor's list of observers
    monPc,            \* position of the monitoring thread in update / sendRequest
    connection,       \* the reader connection of sendRequest
    events,           \* calls of update made by the monitor so far
    inserted,         \* ... of which reported an inserted card
    started,          \* calls of sendRequest so far
    ended,            \* ... of which have returned or raised
    timeoutReported,  \* startObserver has printed its timeout message
    request,          \* the write request handed to the write engine
    wpc,              \* position of the write engine
    targets,          \* block addresses the request resolved to, in order
    iTarget,          \* index in targets of the next block to write
    outcome,          \* per target written or skipped so far: address and success
    wsent             \* the frames the write engine gave to transmit

dumpVars == <<dump, firstSectorOnly, keyA, pc, iSector, iBlock, failCount,
              totalFailCount, faults, sent, lastCall>>
accessVars == <<b6, b7, blockAcess, b8, resultStrBlocks>>
observerVars == <<mainPc, obsPc, n, processedEvent, registered, monPc, connection,
                  events, inserted, started, ended, timeoutReported>>
writeVars == <<request, wpc, targets, iTarget, outcome, wsent>>
vars == <<dump, firstSectorOnly, keyA, pc, iSector, iBlock, failCount,
          totalFailCount, faults, sent, lastCall, b6, b7, blockAcess, b8,
          resultStrBlocks, mainPc, obsPc, n, processedEvent, registered, monPc,
          connection, events, inserted, started, ended, timeoutReported, request,
          wpc, targets, iTarget, outcome, wsent>>

(***************************************************************************)
(* The dump object as its constructors leave it                            *)
(***************************************************************************)
NewBlock == [data |-> Zeros(MIFARE_1K_bytes_per_block), status |-> "NOINIT"]

NewHead == [UID |-> Zeros(4), BCC |-> 0, SAK |-> Zeros(3), SIGN |-> Zeros(8)]

NewTrailer ==
    [keyA |-> MIFARE_1K_default_key,
     keyB |-> MIFARE_1K_default_key,
     accessBits |-> Zeros(3),
     GPB |-> 0,
     status |-> "NOINIT"]

NewSector ==
    [blocks |-> [b \in Blocks |-> NewBlock],
     trailer |-> NewTrailer,
     status |-> "NOINIT"]

NewDump ==
    [head |-> NewHead,
     sectors |-> [s \in Sectors |-> NewSector],
     status |-> "NOINIT"]

(***************************************************************************)
(* The card behind the reader and the transport's answers                  *)
(***************************************************************************)
\* the 16 bytes the card holds at absolute block address a: a trailer block
\* reads as zeroed key A, access bits FF 07 80, GPB 69 and key B; a data
\* block holds bytes that differ from block to block
CardBlock(a) ==
    IF a % MIFARE_1K_blocks_per_sector = MIFARE_1K_blocks_per_sector - 1
    THEN <<0, 0, 0, 0, 0, 0, 255, 7, 128, 105, 18, 52, 86, 120, 154, 188>>
    ELSE [i \in 1..MIFARE_1K_bytes_per_block |-> (a * 16 + i - 1) % 256]

LoadKeyFrame_defaultKey(key) == <<255, 130, 0, 0, 6>> \o MIFARE_1K_default_key

LoadKeyFrame(key) == <<255, 130, 0, 0, 6>> \o key
AuthFrame(nBlock0) == <<255, 134, 0, 0, 5, 1, 0, nBlock0, 96, 0>>
ReadFrame(addr) == <<255, 176, 0, addr, 16>>

IsReadFrame(frame) == Len(frame) = 5 /\ frame[2] = 176
IsAuthFrame(frame) == Len(frame) = 10 /\ frame[2] = 134
IsLoadKeyFrame(frame) == Len(frame) >= 5 /\ frame[2] = 130

\* what a healthy reader answers to a frame
NominalAnswer(frame) ==
    [raised |-> FALSE,
     response |-> IF IsReadFrame(frame) THEN CardBlock(frame[4]) ELSE <<>>,
     sw1 |-> SW1_OK, sw2 |-> SW2_OK]

\* the ways transmit can deviate: it raises, it returns a status word other
\* than 90 00, or it returns 90 00 with a response of the wrong length
FaultAnswers(frame) ==
    {[raised |-> TRUE, response |-> <<>>, sw1 |-> 0, sw2 |-> 0],
     [raised |-> FALSE, response |-> <<>>, sw1 |-> 99, sw2 |-> 0],
     [raised |-> FALSE, response |-> <<>>, sw1 |-> SW1_OK, sw2 |-> 1]}
    \cup (IF IsReadFrame(frame)
          THEN {[raised |-> FALSE, response |-> <<>>, sw1 |-> SW1_OK, sw2 |-> SW2_OK],
                [raised |-> FALSE, response |-> Slice(CardBlock(frame[4]), 0, 8),
                 sw1 |-> SW1_OK, sw2 |-> SW2_OK]}
          ELSE {})

Answers(frame) ==
    {NominalAnswer(frame)} \cup (IF faults < MaxFaults THEN FaultAnswers(frame) ELSE {})

\* the transport accepted the command
AnswerOk(ans) == ~ans.raised /\ ans.sw1 = SW1_OK /\ ans.sw2 = SW2_OK

(***************************************************************************)
(* doTransmit(connection, Key): the value it returns for what transmit did *)
(***************************************************************************)
doTransmit_sw1Only(ans) ==
    IF ~ans.raised /\ ans.sw1 = SW1_OK
    THEN PyTuple(<<PyBool(TRUE), PyList(ans.response)>>)
    ELSE PyBool(FALSE)

doTransmit(ans) ==
    IF ~ans.raised /\ ans.sw1 = SW1_OK /\ ans.sw2 = SW2_OK
    THEN PyTuple(<<PyBool(TRUE), PyList(ans.response)>>)
    ELSE PyBool(FALSE)

(***************************************************************************)
(* Methods of the dump object.  A method that can raise part-way returns   *)
(* the object as the raise leaves it, together with whether it raised.     *)
(***************************************************************************)
\* trailer.processLastBlock(data): data[9] raises IndexError on short data,
\* after accessBits has been assigned
processLastBlock_offByOne(t, data) ==
    LET t1 == [t EXCEPT !.accessBits = Slice(data, 5, 8)]
    IN  IF ~CanIndex(data, 9)
        THEN [raised |-> TRUE, trailer |-> t1]
        ELSE [raised |-> FALSE,
              trailer |-> [t1 EXCEPT !.GPB = data[8 + 1],
                                     !.keyB = Slice(data, 9, 15),
                                     !.status = "OK"]]

processLastBlock_readsKeyA(t, data) ==
    LET t1 == [t EXCEPT !.keyA = Slice(data, 0, 6), !.accessBits = Slice(data, 6, 9)]
    IN  IF ~CanIndex(data, 9)
        THEN [raised |-> TRUE, trailer |-> t1]
        ELSE [raised |-> FALSE,
              trailer |-> [t1 EXCEPT !.GPB = data[9 + 1],
                                     !.keyB = Slice(data, 10, 16),
                                     !.status = "OK"]]

processLastBlock(t, data) ==
    LET t1 == [t EXCEPT !.accessBits = Slice(data, 6, 9)]
    IN  IF ~CanIndex(data, 9)
        THEN [raised |-> TRUE, trailer |-> t1]
        ELSE [raised |-> FALSE,
              trailer |-> [t1 EXCEPT !.GPB = data[9 + 1],
                                     !.keyB = Slice(data, 10, 16),
                                     !.status = "OK"]]

\* head.read(block): data[4] raises IndexError on short data, after UID has
\* been assigned
headRead(h, block) ==
    IF block.status # "OK"
    THEN [raised |-> FALSE, head |-> h]
    ELSE LET h1 == [h EXCEPT !.UID = Slice(block.data, 0, 4)]
         IN  IF ~CanIndex(block.data, 4)
             THEN [raised |-> TRUE, head |-> h1]
             ELSE [raised |-> FALSE,
                   head |-> [h1 EXCEPT !.BCC = block.data[4 + 1],
                                       !.SAK = Slice(block.data, 5, 8),
                                       !.SIGN = Slice(block.data, 8, 16)]]

(***************************************************************************)
(* dump_mifare_1k(dump, connection, firstSectorOnly, keyA)                 *)
(***************************************************************************)
NoCall ==
    [made |-> FALSE, frame |-> <<>>, answer |-> NominalAnswer(<<>>),
     result |-> PyNone, tested |-> PyNone, treatedOk |-> FALSE,
     unpackRaised |-> FALSE]

\* connection.transmit(frame) answered ans: the call is logged under the
\* sector iteration that made it, and a deviating answer uses up a fault
Transmitted(frame, ans, tested, treatedOk, unpackRaised) ==
    /\ lastCall' = [made |-> TRUE, frame |-> frame, answer |-> ans,
                    result |-> doTransmit(ans), tested |-> tested,
                    treatedOk |-> treatedOk, unpackRaised |-> unpackRaised]
    /\ sent' = [sent EXCEPT ![iSector] = Append(@, [frame |-> frame, ok |-> AnswerOk(ans)])]
    /\ faults' = IF ans = NominalAnswer(frame) THEN faults ELSE faults + 1

\* the except clause of dump_mifare_1k: the dump is marked and the function returns
Raised_noStatus(d) ==
    /\ dump' = d
    /\ pc' = "done"

Raised_propagates(d) ==
    /\ dump' = d
    /\ pc' = "raised"

Raised(d) ==
    /\ dump' = [d EXCEPT !.status = "READ_ERROR"]
    /\ pc' = "done"

\* nBlock0, the absolute address of the first block of a sector
SectorFirstBlock_noScale(s) == s

SectorFirstBlock(s) == s * 4

\* the absolute address of block iBlock of the sector that starts at nBlock0
BlockAddress_ignoresIndex(nBlock0, i) == nBlock0

BlockAddress_reversed(nBlock0, i) == nBlock0 + (MIFARE_1K_blocks_per_sector - 1 - i)

BlockAddress(nBlock0, i) == nBlock0 + i

\* `sector.status = ...` of the sector iteration at work: nothing else of the
\* dump is assigned
SetSectorStatus_clearsTrailer(d, st) ==
    [d EXCEPT !.sectors[iSector].status = st,
              !.sectors[iSector].trailer.keyB = Zeros(MIFARE_1K_bytes_per_key)]

SetSectorStatus(d, st) == [d EXCEPT !.sectors[iSector].status = st]

\* load key A; `if not doTransmit(...)` tests the returned value as a whole
LoadKey ==
    /\ pc = "loadKey"
    /\ LET frame == LoadKeyFrame(keyA)
       IN  \E ans \in Answers(frame) :
             LET res == doTransmit(ans)
             IN  /\ Transmitted(frame, ans, res, Truthy(res), FALSE)
                 /\ IF ~Truthy(res)
                    THEN /\ dump' = SetSectorStatus(dump, "KEY_ERROR")
                         /\ totalFailCount' = totalFailCount + 1
                         /\ pc' = "endSector"
                    ELSE /\ pc' = "auth"
                         /\ UNCHANGED <<dump, totalFailCount>>
    /\ UNCHANGED <<firstSectorOnly, keyA, iSector, iBlock, failCount>>
    /\ UNCHANGED accessVars
    /\ UNCHANGED writeVars
    /\ UNCHANGED observerVars

\* authenticate block iSector * 4 with key A; same test of the whole value
Authenticate ==
    /\ pc = "auth"
    /\ LET nBlock0 == SectorFirstBlock(iSector)
           frame == AuthFrame(nBlock0)
       IN  \E ans \in Answers(frame) :
             LET res == doTransmit(ans)
             IN  /\ Transmitted(frame, ans, res, Truthy(res), FALSE)
                 /\ IF ~Truthy(res)
                    THEN /\ dump' = SetSectorStatus(dump, "AUTH_ERROR")
                         /\ totalFailCount' = totalFailCount + 1
                         /\ pc' = "endSector"
                         /\ UNCHANGED <<failCount, iBlock>>
                    ELSE /\ dump' = SetSectorStatus(dump, "OK")
                         /\ failCount' = 0
                         /\ iBlock' = 0
                         /\ pc' = "read"
                         /\ UNCHANGED totalFailCount
    /\ UNCHANGED <<firstSectorOnly, keyA, iSector>>
    /\ UNCHANGED accessVars
    /\ UNCHANGED writeVars
    /\ UNCHANGED observerVars

AfterBlocks_marksDumpOk(d, fc) ==
    IF fc # 0
    THEN [d EXCEPT !.sectors[iSector].status = "READ_ERROR"]
    ELSE [d EXCEPT !.status = "OK"]

\* the sector status after the block loop (lines 185-186)
AfterBlocks(d, fc) ==
    IF fc # 0 THEN [d EXCEPT !.sectors[iSector].status = "READ_ERROR"] ELSE d

\* one iteration of the block loop: `readOk, data = doTransmit(...)` unpacks
\* the returned value, which raises TypeError when it is not a pair
ReadBlock ==
    /\ pc = "read"
    /\ LET nBlock0 == SectorFirstBlock(iSector)
           frame == ReadFrame(BlockAddress(nBlock0, iBlock))
           last == (iBlock + 1) = MIFARE_1K_blocks_per_sector
       IN  \E ans \in Answers(frame) :
             LET res == doTransmit(ans)
             IN  IF ~CanUnpack2(res)
                 THEN /\ Transmitted(frame, ans, PyNone, FALSE, TRUE)
                      /\ Raised(dump)
                      /\ UNCHANGED <<iBlock, failCount, totalFailCount>>
                 ELSE LET readOk == res.items[1]
                          data == res.items[2].items
                      IN  /\ Transmitted(frame, ans, readOk, Truthy(readOk), FALSE)
                          /\ IF Truthy(readOk)
                             THEN LET d1 == [dump EXCEPT
                                               !.sectors[iSector].blocks[iBlock] =
                                                   [data |-> data, status |-> "OK"]]
                                      tr == processLastBlock(d1.sectors[iSector].trailer, data)
                                      d2 == IF last
                                            THEN [d1 EXCEPT !.sectors[iSector].trailer = tr.trailer]
                                            ELSE d1
                                  IN  IF last /\ tr.raised
                                      THEN /\ Raised(d2)
                                           /\ UNCHANGED <<iBlock, failCount, totalFailCount>>
                                      ELSE /\ dump' = IF last THEN AfterBlocks(d2, failCount) ELSE d2
                                           /\ iBlock' = IF last THEN iBlock ELSE iBlock + 1
                                           /\ pc' = IF last THEN "endSector" ELSE "read"
                                           /\ UNCHANGED <<failCount, totalFailCount>>
                             ELSE LET d1 == [dump EXCEPT
                                               !.sectors[iSector].blocks[iBlock].status = "READ_ERROR"]
                                  IN  /\ failCount' = failCount + 1
                                      /\ totalFailCount' = totalFailCount + 1
                                      /\ dump' = IF last THEN AfterBlocks(d1, failCount + 1) ELSE d1
                                      /\ iBlock' = IF last THEN iBlock ELSE iBlock + 1
                                      /\ pc' = IF last THEN "endSector" ELSE "read"
    /\ UNCHANGED <<firstSectorOnly, keyA, iSector>>
    /\ UNCHANGED accessVars
    /\ UNCHANGED writeVars
    /\ UNCHANGED observerVars

\* the end of a sector iteration: `if firstSectorOnly: break`, else the next
\* sector, or the end of the loop after the last one
EndSector ==
    /\ pc = "endSector"
    /\ IF firstSectorOnly \/ iSector + 1 = MIFARE_1K_total_sectors
       THEN /\ pc' = "head"
            /\ UNCHANGED iSector
       ELSE /\ pc' = "loadKey"
            /\ iSector' = iSector + 1
    /\ UNCHANGED <<dump, firstSectorOnly, keyA, iBlock, failCount, totalFailCount,
                   faults, sent, lastCall>>
    /\ UNCHANGED accessVars
    /\ UNCHANGED writeVars
    /\ UNCHANGED observerVars

\* the block the head is read from after the loop: dump.sectors[0].blocks[0]
HeadSource_block1(d) == d.sectors[0].blocks[1]

HeadSource(d) == d.sectors[0].blocks[0]

\* dump.head.read(dump.sectors[0].blocks[0]), then return
ReadHead ==
    /\ pc = "head"
    /\ LET r == headRead(dump.head, HeadSource(dump))
           d == [dump EXCEPT !.head = r.head]
       IN  IF r.raised
           THEN Raised(d)
           ELSE /\ dump' = d
                /\ pc' = "done"
    /\ UNCHANGED <<firstSectorOnly, keyA, iSector, iBlock, failCount, totalFailCount,
                   faults, sent, lastCall>>
    /\ UNCHANGED accessVars
    /\ UNCHANGED writeVars
    /\ UNCHANGED observerVars

(***************************************************************************)
(* Specification of one dump: a fresh dump object, either value of         *)
(* firstSectorOnly, any of the keys                                        *)
(***************************************************************************)
\* the keys a caller may pass: the default key, another 6-byte key, and a
\* key of 5 bytes, which the signature does not rule out
Keys == {MIFARE_1K_default_key,
         <<160, 161, 162, 163, 164, 165>>,
         <<160, 161, 162, 163, 164>>}

AccessIdle == b6 = 0 /\ b7 = 0 /\ blockAcess = <<>> /\ b8 = 0 /\ resultStrBlocks = <<>>

\* no write has been requested
NoRequest == [scope |-> "None", nSector |-> -1, nBlock |-> -1, payloadLen |-> 0]

WriteIdle ==
    /\ request = NoRequest
    /\ wpc = "idle"
    /\ targets = <<>>
    /\ iTarget = 0
    /\ outcome = <<>>
    /\ wsent = <<>>

\* startObserver has not been called
ObserverIdle ==
    /\ mainPc = "idle"
    /\ obsPc = "idle"
    /\ n = 0
    /\ processedEvent = FALSE
    /\ registered = FALSE
    /\ monPc = "idle"
    /\ connection = "unbound"
    /\ events = 0
    /\ inserted = 0
    /\ started = 0
    /\ ended = 0
    /\ timeoutReported = FALSE

\* the calls explored: the full scan with the default key (the value the
\* keyA parameter defaults to), and the scan of the first sector with any key
Calls ==
    {[firstSectorOnly |-> f, keyA |-> MIFARE_1K_default_key] : f \in BOOLEAN}
    \cup {[firstSectorOnly |-> TRUE, keyA |-> k] : k \in Keys}

Init ==
    /\ dump = NewDump
    /\ \E c \in Calls :
          /\ firstSectorOnly = c.firstSectorOnly
          /\ keyA = c.keyA
    /\ pc = "loadKey"
    /\ iSector = 0
    /\ iBlock = 0
    /\ failCount = 0
    /\ totalFailCount = 0
    /\ faults = 0
    /\ sent = [s \in Sectors |-> <<>>]
    /\ lastCall = NoCall
    /\ AccessIdle
    /\ ObserverIdle
    /\ WriteIdle

Next ==
    \/ LoadKey
    \/ Authenticate
    \/ ReadBlock
    \/ EndSector
    \/ ReadHead

Spec == Init /\ [][Next]_vars

(***************************************************************************)
(* Specification of the access-bits decoder: every pair of access bytes    *)
(***************************************************************************)
Bytes == 0..255

\* values of the third access byte: all bits clear, the factory value 0x80,
\* all bits set
ThirdBytes == {0, 128, 255}

DumpIdle ==
    /\ dump = NewDump
    /\ firstSectorOnly = TRUE
    /\ keyA = MIFARE_1K_default_key
    /\ pc = "idle"
    /\ iSector = 0
    /\ iBlock = 0
    /\ failCount = 0
    /\ totalFailCount = 0
    /\ faults = 0
    /\ sent = [s \in Sectors |-> <<>>]
    /\ lastCall = NoCall

InitAccess ==
    /\ DumpIdle
    /\ b6 \in Bytes
    /\ b7 \in Bytes
    /\ b8 \in ThirdBytes
    /\ blockAcess = <<>>
    /\ resultStrBlocks = <<>>
    /\ ObserverIdle
    /\ WriteIdle

\* blockAcess = parseAccessBits(b6, b7)
CallParseAccessBits ==
    /\ pc = "idle"
    /\ blockAcess = <<>>
    /\ blockAcess' = parseAccessBits(b6, b7)
    /\ UNCHANGED <<b6, b7, b8, resultStrBlocks>>
    /\ UNCHANGED dumpVars
    /\ UNCHANGED observerVars
    /\ UNCHANGED writeVars

\* resultStrBlocks = accessBitsToStr(bytes b6 b7 b8)
CallAccessBitsToStr ==
    /\ pc = "idle"
    /\ resultStrBlocks = <<>>
    /\ resultStrBlocks' = accessBitsToStr(<<b6, b7, b8>>)
    /\ UNCHANGED <<b6, b7, b8, blockAcess>>
    /\ UNCHANGED dumpVars
    /\ UNCHANGED observerVars
    /\ UNCHANGED writeVars

NextAccess ==
    \/ CallParseAccessBits
    \/ CallAccessBitsToStr

SpecAccess == InitAccess /\ [][NextAccess]_vars

(***************************************************************************)
(* Waiting for a card: startObserver in the main thread, observerThread in *)
(* the thread it starts, and the card monitor's thread, which calls        *)
(* PrintObserver.update and, through it, sendRequest                       *)
(***************************************************************************)
\* n = 12: the polling cycles of observerThread
WaitCycles == 12

\* how many times the monitor calls update in one run
MaxEvents == 2

\* printDump(dump, firstSectorOnly): accessBitsToStr indexes bytes 0 and 1 of
\* each printed sector's trailer.accessBits, which raises IndexError when a
\* short last block left fewer than 2 bytes there
printDumpRaises(d, first) ==
    \E s \in Sectors :
        /\ first => s = 0
        /\ ~CanIndex(d.sectors[s].trailer.accessBits, 1)

\* the monitoring thread is inside update: it delivers no further event
\* before update has returned
InCallback_returnsAtOnce == FALSE

InCallback == monPc # "idle"

\* where sendRequest goes on after its except clause: the finally clause
AfterExcept_returns == "set"

AfterExcept == "finally"

\* the test of the while loop of observerThread, and its `n -= 1`
LoopGoesOn(left, isSet) == left > 0 /\ ~isSet

Countdown_stuck(left) == left

Countdown(left) == left - 1

\* observer = PrintObserver(); t = threading.Thread(...); t.start()
MainStart ==
    /\ mainPc = "start"
    /\ processedEvent' = FALSE
    /\ obsPc' = "addObserver"
    /\ mainPc' = "join"
    /\ UNCHANGED <<n, registered, monPc, connection, events, inserted, started,
                   ended, timeoutReported>>
    /\ UNCHANGED dumpVars
    /\ UNCHANGED accessVars
    /\ UNCHANGED writeVars

\* t.join() returns once observerThread has returned
MainJoin ==
    /\ mainPc = "join"
    /\ obsPc = "finished"
    /\ mainPc' = "check"
    /\ UNCHANGED <<obsPc, n, processedEvent, registered, monPc, connection, events,
                   inserted, started, ended, timeoutReported>>
    /\ UNCHANGED dumpVars
    /\ UNCHANGED accessVars
    /\ UNCHANGED writeVars

\* if not observer.processedEvent.is_set(): print the timeout message
MainCheck ==
    /\ mainPc = "check"
    /\ timeoutReported' = ~processedEvent
    /\ mainPc' = "returned"
    /\ UNCHANGED <<obsPc, n, processedEvent, registered, monPc, connection, events,
                   inserted, started, ended>>
    /\ UNCHANGED dumpVars
    /\ UNCHANGED accessVars
    /\ UNCHANGED writeVars

\* monitor = CardMonitor(); monitor.addObserver(observer); n = 12
ObsAdd ==
    /\ obsPc = "addObserver"
    /\ registered' = TRUE
    /\ n' = WaitCycles
    /\ obsPc' = "test"
    /\ UNCHANGED <<mainPc, processedEvent, monPc, connection, events, inserted,
                   started, ended, timeoutReported>>
    /\ UNCHANGED dumpVars
    /\ UNCHANGED accessVars
    /\ UNCHANGED writeVars

\* while n > 0 and not observer.processedEvent.is_set(): n -= 1; write
ObsTest ==
    /\ obsPc = "test"
    /\ IF LoopGoesOn(n, processedEvent)
       THEN /\ n' = Countdown(n)
            /\ obsPc' = "wait"
       ELSE /\ obsPc' = "delete"
            /\ UNCHANGED n
    /\ UNCHANGED <<mainPc, processedEvent, registered, monPc, connection, events,
                   inserted, started, ended, timeoutReported>>
    /\ UNCHANGED dumpVars
    /\ UNCHANGED accessVars
    /\ UNCHANGED writeVars

\* observer.processedEvent.wait(timeout=1) returns, because the event is set
\* or because the second has passed
ObsWait ==
    /\ obsPc = "wait"
    /\ obsPc' = "test"
    /\ UNCHANGED <<mainPc, n, processedEvent, registered, monPc, connection, events,
                   inserted, started, ended, timeoutReported>>
    /\ UNCHANGED dumpVars
    /\ UNCHANGED accessVars
    /\ UNCHANGED writeVars

\* finally: monitor.deleteObserver(observer); the thread ends
ObsDelete ==
    /\ obsPc = "delete"
    /\ registered' = FALSE
    /\ obsPc' = "finished"
    /\ UNCHANGED <<mainPc, n, processedEvent, monPc, connection, events, inserted,
                   started, ended, timeoutReported>>
    /\ UNCHANGED dumpVars
    /\ UNCHANGED accessVars
    /\ UNCHANGED writeVars

\* the monitor calls update(observable, handlers) of the registered observer,
\* with or without inserted cards in handlers[0]; with one, update prints its
\* ATR and calls sendRequest()
UpdateCall ==
    /\ registered
    /\ ~InCallback
    /\ events < MaxEvents
    /\ events' = events + 1
    /\ \E added \in BOOLEAN :
          IF added
          THEN /\ inserted' = inserted + 1
               /\ started' = started + 1
               /\ monPc' = "waitforcard"
          ELSE UNCHANGED <<inserted, started, monPc>>
    /\ UNCHANGED <<mainPc, obsPc, n, processedEvent, registered, connection, ended,
                   timeoutReported>>
    /\ UNCHANGED dumpVars
    /\ UNCHANGED accessVars
    /\ UNCHANGED writeVars

\* CardRequest(timeout=10).waitforcard(): returns the card service, or raises
\* after the timeout; it is outside the try, so the exception leaves
\* sendRequest and update, and the monitoring thread goes on or stops
WaitForCard ==
    /\ monPc = "waitforcard"
    /\ \/ /\ monPc' = "connect"
          /\ UNCHANGED ended
       \/ /\ monPc' \in {"idle", "stopped"}
          /\ ended' = ended + 1
    /\ UNCHANGED <<mainPc, obsPc, n, processedEvent, registered, connection, events,
                   inserted, started, timeoutReported>>
    /\ UNCHANGED dumpVars
    /\ UNCHANGED accessVars
    /\ UNCHANGED writeVars

\* connection = crdService.connection; connection.connect(exclusive): when
\* it returns, a fresh dump object is made and dump_mifare_1k is entered with
\* the default firstSectorOnly of sendRequest and the default key; when it
\* raises, the except clause runs
Connect ==
    /\ monPc = "connect"
    /\ \/ /\ connection' = "connected"
          /\ monPc' = "dump"
          /\ dump' = NewDump
          /\ firstSectorOnly' = TRUE
          /\ keyA' = MIFARE_1K_default_key
          /\ pc' = "loadKey"
          /\ iSector' = 0
          /\ iBlock' = 0
          /\ failCount' = 0
          /\ totalFailCount' = 0
          /\ sent' = [s \in Sectors |-> <<>>]
          /\ lastCall' = NoCall
          /\ UNCHANGED faults
       \/ /\ connection' = "disconnected"
          /\ monPc' = "except"
          /\ UNCHANGED dumpVars
    /\ UNCHANGED <<mainPc, obsPc, n, processedEvent, registered, events, inserted,
                   started, ended, timeoutReported>>
    /\ UNCHANGED accessVars
    /\ UNCHANGED writeVars

\* dump_mifare_1k has returned: printDump(dump, firstSectorOnly)
PrintDump ==
    /\ monPc = "dump"
    /\ pc = "done"
    /\ pc' = "idle"
    /\ monPc' = IF printDumpRaises(dump, firstSectorOnly) THEN "except" ELSE "finally"
    /\ UNCHANGED <<dump, firstSectorOnly, keyA, iSector, iBlock, failCount,
                   totalFailCount, faults, sent, lastCall>>
    /\ UNCHANGED <<mainPc, obsPc, n, processedEvent, registered, connection, events,
                   inserted, started, ended, timeoutReported>>
    /\ UNCHANGED accessVars
    /\ UNCHANGED writeVars

\* except Exception as e: print
Except ==
    /\ monPc = "except"
    /\ monPc' = AfterExcept
    /\ UNCHANGED <<mainPc, obsPc, n, processedEvent, registered, connection, events,
                   inserted, started, ended, timeoutReported>>
    /\ UNCHANGED dumpVars
    /\ UNCHANGED accessVars
    /\ UNCHANGED writeVars

\* finally: connection.disconnect(); sendRequest returns
Finally ==
    /\ monPc = "finally"
    /\ connection' = "disconnected"
    /\ ended' = ended + 1
    /\ monPc' = "set"
    /\ UNCHANGED <<mainPc, obsPc, n, processedEvent, registered, events, inserted,
                   started, timeoutReported>>
    /\ UNCHANGED dumpVars
    /\ UNCHANGED accessVars
    /\ UNCHANGED writeVars

\* self.processedEvent.set(); update returns
SetEvent ==
    /\ monPc = "set"
    /\ processedEvent' = TRUE
    /\ monPc' = "idle"
    /\ UNCHANGED <<mainPc, obsPc, n, registered, connection, events, inserted,
                   started, ended, timeoutReported>>
    /\ UNCHANGED dumpVars
    /\ UNCHANGED accessVars
    /\ UNCHANGED writeVars

InitObserver ==
    /\ DumpIdle
    /\ AccessIdle
    /\ mainPc = "start"
    /\ obsPc = "idle"
    /\ n = 0
    /\ processedEvent = FALSE
    /\ registered = FALSE
    /\ monPc = "idle"
    /\ connection = "unbound"
    /\ events = 0
    /\ inserted = 0
    /\ started = 0
    /\ ended = 0
    /\ timeoutReported = FALSE
    /\ WriteIdle

MainNext == MainStart \/ MainJoin \/ MainCheck

ObsNext == ObsAdd \/ ObsTest \/ ObsWait \/ ObsDelete

MonitorNext ==
    \/ UpdateCall
    \/ WaitForCard
    \/ Connect
    \/ LoadKey
    \/ Authenticate
    \/ ReadBlock
    \/ EndSector
    \/ ReadHead
    \/ PrintDump
    \/ Except
    \/ Finally
    \/ SetEvent

NextObserver == MainNext \/ ObsNext \/ MonitorNext

SpecObserver == InitObserver /\ [][NextObserver]_vars

\* every started thread keeps being scheduled, and a wait with a timeout
\* returns: the main thread and the observer thread take their next step
SpecObserverLive ==
    /\ InitObserver
    /\ [][NextObserver]_vars
    /\ WF_vars(MainNext)
    /\ WF_vars(ObsNext)

(***************************************************************************)
(* The write engine: write(transport, request, key).  It resolves the      *)
(* request to its target blocks, validates it before anything is           *)
(* transmitted, then loads the key and authenticates once per sector and   *)
(* writes the sector's targets.                                            *)
(***************************************************************************)
\* the blocks of a sector that bulk writes address: all but the trailer
DataBlocksPerSector == MIFARE_1K_blocks_per_sector - 1

SectorOf(addr) == addr \div MIFARE_1K_blocks_per_sector

\* the target addresses of a request, in the order they are written
ScopeTargets_withTrailers(req) ==
    CASE req.scope = "Block" ->
           <<req.nSector * MIFARE_1K_blocks_per_sector + req.nBlock>>
      [] req.scope = "Sector" ->
           [k \in 1..MIFARE_1K_blocks_per_sector |->
               req.nSector * MIFARE_1K_blocks_per_sector + (k - 1)]
      [] req.scope = "EntireCard" ->
           [k \in 1..(MIFARE_1K_blocks_per_sector * MIFARE_1K_total_sectors) |-> k - 1]

ScopeTargets(req) ==
    CASE req.scope = "Block" ->
           <<req.nSector * MIFARE_1K_blocks_per_sector + req.nBlock>>
      [] req.scope = "Sector" ->
           [k \in 1..DataBlocksPerSector |->
               req.nSector * MIFARE_1K_blocks_per_sector + (k - 1)]
      [] req.scope = "EntireCard" ->
           [k \in 1..(DataBlocksPerSector * MIFARE_1K_total_sectors) |->
               ((k - 1) \div DataBlocksPerSector) * MIFARE_1K_blocks_per_sector
               + ((k - 1) % DataBlocksPerSector)]

\* a single-block request aimed at the trailer of its sector
TargetsTrailer_never(req) == FALSE

TargetsTrailer(req) ==
    req.scope = "Block" /\ req.nBlock = MIFARE_1K_blocks_per_sector - 1

\* the payload length a request must carry
RequiredPayloadLen_blockCount(req) == Len(ScopeTargets(req))

RequiredPayloadLen(req) == MIFARE_1K_bytes_per_block * Len(ScopeTargets(req))

WriteFrame(addr, data) == <<255, 214, 0, addr, 16>> \o data

\* the index of the first target after iTarget that lies in another sector,
\* Len(targets) + 1 when there is none
NextSectorIndex ==
    LET later == {k \in (iTarget + 1)..Len(targets) :
                     SectorOf(targets[k]) # SectorOf(targets[iTarget])}
    IN  IF later = {} THEN Len(targets) + 1
        ELSE CHOOSE k \in later : \A m \in later : k <= m

\* the transport's answer to a frame of the write engine: accepted, or not
WriteAnswers == IF faults < MaxFaults THEN BOOLEAN ELSE {TRUE}

WriteTransmitted(frame, ok) ==
    /\ wsent' = Append(wsent, [frame |-> frame, ok |-> ok])
    /\ faults' = IF ok THEN faults ELSE faults + 1

\* key load or authenticate failed: the remaining targets of the sector are
\* recorded as failed and the engine goes on with the next sector's targets
SkipSector ==
    /\ outcome' = outcome \o [k \in 1..(NextSectorIndex - iTarget) |->
                                 [addr |-> targets[iTarget + k - 1], ok |-> FALSE]]
    /\ iTarget' = NextSectorIndex
    /\ wpc' = IF NextSectorIndex > Len(targets) THEN "done" ELSE "loadKey"

dumpVarsButFaults == <<dump, firstSectorOnly, keyA, pc, iSector, iBlock, failCount,
                       totalFailCount, sent, lastCall>>

\* target resolution and validation, before any transmission
WriteValidate ==
    /\ wpc = "validate"
    /\ IF TargetsTrailer(request) \/ request.payloadLen # RequiredPayloadLen(request)
       THEN /\ wpc' = "rejected"
            /\ UNCHANGED <<targets, iTarget>>
       ELSE /\ targets' = ScopeTargets(request)
            /\ iTarget' = 1
            /\ wpc' = "loadKey"
    /\ UNCHANGED <<request, outcome, wsent, faults>>
    /\ UNCHANGED dumpVarsButFaults
    /\ UNCHANGED accessVars
    /\ UNCHANGED observerVars

WriteLoadKey ==
    /\ wpc = "loadKey"
    /\ \E ok \in WriteAnswers :
          /\ WriteTransmitted(LoadKeyFrame(MIFARE_1K_default_key), ok)
          /\ IF ok
             THEN /\ wpc' = "auth"
                  /\ UNCHANGED <<outcome, iTarget>>
             ELSE SkipSector
    /\ UNCHANGED <<request, targets>>
    /\ UNCHANGED dumpVarsButFaults
    /\ UNCHANGED accessVars
    /\ UNCHANGED observerVars

WriteAuthenticate ==
    /\ wpc = "auth"
    /\ \E ok \in WriteAnswers :
          /\ WriteTransmitted(
                AuthFrame(SectorOf(targets[iTarget]) * MIFARE_1K_blocks_per_sector), ok)
          /\ IF ok
             THEN /\ wpc' = "write"
                  /\ UNCHANGED <<outcome, iTarget>>
             ELSE SkipSector
    /\ UNCHANGED <<request, targets>>
    /\ UNCHANGED dumpVarsButFaults
    /\ UNCHANGED accessVars
    /\ UNCHANGED observerVars

WriteBlock ==
    /\ wpc = "write"
    /\ \E ok \in WriteAnswers :
          /\ WriteTransmitted(
                WriteFrame(targets[iTarget], Zeros(MIFARE_1K_bytes_per_block)), ok)
          /\ outcome' = Append(outcome, [addr |-> targets[iTarget], ok |-> ok])
    /\ iTarget' = iTarget + 1
    /\ wpc' = IF iTarget + 1 > Len(targets) THEN "done"
              ELSE IF NextSectorIndex = iTarget + 1 THEN "loadKey"
              ELSE "write"
    /\ UNCHANGED <<request, targets>>
    /\ UNCHANGED dumpVarsButFaults
    /\ UNCHANGED accessVars
    /\ UNCHANGED observerVars

\* the requests explored: every scope, three sectors, every block index and
\* payloads of 1, 3, 4, 45 and 48 blocks
WriteSectors == {0, 7, 15}

PayloadLens == {16, 48, 64, 720, 768}

Requests ==
    {[scope |-> "Block", nSector |-> s, nBlock |-> b, payloadLen |-> l] :
        s \in WriteSectors, b \in Blocks, l \in PayloadLens}
    \cup {[scope |-> "Sector", nSector |-> s, nBlock |-> -1, payloadLen |-> l] :
            s \in WriteSectors, l \in PayloadLens}
    \cup {[scope |-> "EntireCard", nSector |-> -1, nBlock |-> -1, payloadLen |-> l] :
            l \in PayloadLens}

InitWrite ==
    /\ DumpIdle
    /\ AccessIdle
    /\ ObserverIdle
    /\ request \in Requests
    /\ wpc = "validate"
    /\ targets = <<>>
    /\ iTarget = 0
    /\ outcome = <<>>
    /\ wsent = <<>>

NextWrite ==
    \/ WriteValidate
    \/ WriteLoadKey
    \/ WriteAuthenticate
    \/ WriteBlock

SpecWrite == InitWrite /\ [][NextWrite]_vars

(***************************************************************************)
(* The program as a whole: one run is a dump or a write                    *)
(***************************************************************************)
InitProgram == Init \/ InitWrite

NextProgram == Next \/ NextWrite

SpecProgram == InitProgram /\ [][NextProgram]_vars

(***************************************************************************)
(* What the log of transmitted frames says about a sector                  *)
(***************************************************************************)
\* the load-key command of sector s was transmitted and failed
KeyLoadFailed(s) ==
    /\ Len(sent[s]) >= 1
    /\ IsLoadKeyFrame(sent[s][1].frame)
    /\ ~sent[s][1].ok

\* the load-key command of sector s succeeded and its authenticate failed
AuthFailed(s) ==
    /\ Len(sent[s]) >= 2
    /\ sent[s][1].ok
    /\ IsAuthFrame(sent[s][2].frame)
    /\ ~sent[s][2].ok

\* key load and authenticate of sector s both succeeded
Authenticated(s) ==
    /\ Len(sent[s]) >= 2
    /\ sent[s][1].ok
    /\ sent[s][2].ok

\* a read command for block k of sector s was transmitted and failed
ReadFailed(s, k) ==
    \E i \in DOMAIN sent[s] :
        sent[s][i].frame = ReadFrame(s * 4 + k) /\ ~sent[s][i].ok

\* some iteration transmitted an authenticate or a read addressed to sector s
AuthSentFor(s) ==
    \E t \in Sectors : \E i \in DOMAIN sent[t] :
        IsAuthFrame(sent[t][i].frame) /\ sent[t][i].frame[8] \div 4 = s

ReadSentFor(s) ==
    \E t \in Sectors : \E i \in DOMAIN sent[t] :
        IsReadFrame(sent[t][i].frame) /\ sent[t][i].frame[4] \div 4 = s

\* the scan has left sector s behind and, unless it was the last one to
\* visit, has issued the load-key command of the next sector
WentOnAfter(s) ==
    /\ iSector = s => pc \in {"endSector", "head", "done"}
    /\ (pc = "done" /\ ~firstSectorOnly /\ s + 1 < MIFARE_1K_total_sectors)
          => /\ Len(sent[s + 1]) >= 1
             /\ IsLoadKeyFrame(sent[s + 1][1].frame)

(***************************************************************************)
(* C1: when one block read of an authenticated sector fails and no other   *)
(* read of that sector fails, then once the dump has returned the failed   *)
(* block has status READ_ERROR, the sector has status READ_ERROR and each  *)
(* of the other three blocks has status OK with the bytes of its own read. *)
(***************************************************************************)
C1_OneFailedReadIsIsolated ==
    pc = "done" =>
        \A s \in Sectors : \A k \in Blocks :
            (Authenticated(s) /\ ReadFailed(s, k)
                /\ \A j \in Blocks \ {k} : ~ReadFailed(s, j))
            => /\ dump.sectors[s].blocks[k].status = "READ_ERROR"
               /\ dump.sectors[s].status = "READ_ERROR"
               /\ \A j \in Blocks \ {k} :
                     /\ dump.sectors[s].blocks[j].status = "OK"
                     /\ dump.sectors[s].blocks[j].data = CardBlock(s * 4 + j)

(***************************************************************************)
(* C2: once the dump has returned, a sector's status is OK if and only if  *)
(* all 4 of its blocks have status OK, and a sector whose key load and     *)
(* authenticate succeeded but one of whose block reads failed has status   *)
(* READ_ERROR.                                                             *)
(***************************************************************************)
C2_SectorOkIffAllBlocksOk ==
    pc = "done" =>
        \A s \in Sectors :
            /\ dump.sectors[s].status = "OK"
                  <=> \A k \in Blocks : dump.sectors[s].blocks[k].status = "OK"
            /\ (Authenticated(s) /\ \E k \in Blocks : ReadFailed(s, k))
                  => dump.sectors[s].status = "READ_ERROR"

(***************************************************************************)
(* C3: with firstSectorOnly = false, once the dump has returned a load-key *)
(* command has been transmitted for every one of the 16 sectors, whatever  *)
(* failed in earlier sectors.                                              *)
(***************************************************************************)
C3_EverySectorAttempted ==
    (pc = "done" /\ ~firstSectorOnly) =>
        \A s \in Sectors :
            /\ Len(sent[s]) >= 1
            /\ IsLoadKeyFrame(sent[s][1].frame)

(***************************************************************************)
(* C4: when the load-key command of a sector fails, the sector's status is *)
(* KEY_ERROR, no authenticate and no read command is transmitted for that  *)
(* sector, and the scan goes on to the next sector.                        *)
(***************************************************************************)
C4_KeyLoadFailureSkipsSector ==
    \A s \in Sectors :
        KeyLoadFailed(s) =>
            /\ dump.sectors[s].status = "KEY_ERROR"
            /\ Len(sent[s]) = 1
            /\ ~AuthSentFor(s)
            /\ ~ReadSentFor(s)
            /\ WentOnAfter(s)

C4_Witness ==
    /\ pc = "done"
    /\ KeyLoadFailed(3)
    /\ dump.sectors[3].status = "KEY_ERROR"
    /\ dump.sectors[4].status = "OK"

(***************************************************************************)
(* C5: the authenticate command of sector s is addressed to block s*4;     *)
(* when key load succeeded and that authenticate fails, the sector's       *)
(* status is AUTH_ERROR, no read command is transmitted for that sector,   *)
(* and the scan goes on to the next sector.                                *)
(***************************************************************************)
C5_AuthFailureSkipsSector ==
    \A s \in Sectors :
        /\ Len(sent[s]) >= 2 => sent[s][2].frame = AuthFrame(s * 4)
        /\ AuthFailed(s) =>
              /\ dump.sectors[s].status = "AUTH_ERROR"
              /\ Len(sent[s]) = 2
              /\ ~ReadSentFor(s)
              /\ WentOnAfter(s)

C5_Witness ==
    /\ pc = "done"
    /\ AuthFailed(3)
    /\ dump.sectors[3].status = "AUTH_ERROR"
    /\ dump.sectors[4].status = "OK"

(***************************************************************************)
(* C6: whenever the transport raises or the status word differs from       *)
(* 90 00, doTransmit returns the pair (False, None), so that its result    *)
(* can be unpacked as (success, payload).                                  *)
(***************************************************************************)
C6_FailureIsFalseNonePair ==
    (lastCall.made /\ ~AnswerOk(lastCall.answer)) =>
        /\ CanUnpack2(lastCall.result)
        /\ lastCall.result = PyTuple(<<PyBool(FALSE), PyNone>>)

(***************************************************************************)
(* C7: doTransmit reports success, with the response bytes the transport   *)
(* returned, exactly when transmit returned without raising and with       *)
(* sw1 = 0x90 and sw2 = 0x00; in every other case it reports failure.      *)
(***************************************************************************)
ReportsSuccess(r) ==
    /\ r.type = "tuple"
    /\ Len(r.items) = 2
    /\ r.items[1] = PyBool(TRUE)

ReportsFailure(r) ==
    \/ r = PyBool(FALSE)
    \/ r.type = "tuple" /\ Len(r.items) = 2 /\ r.items[1] = PyBool(FALSE)

C7_SuccessIffStatusWord9000 ==
    lastCall.made =>
        /\ ReportsSuccess(lastCall.result)
              <=> (~lastCall.answer.raised
                   /\ lastCall.answer.sw1 = 144 /\ lastCall.answer.sw2 = 0)
        /\ ReportsSuccess(lastCall.result)
              => lastCall.result.items[2] = PyList(lastCall.answer.response)
        /\ ~ReportsSuccess(lastCall.result) => ReportsFailure(lastCall.result)

\* a successful exchange whose response is empty
C7_Witness ==
    /\ lastCall.made
    /\ IsReadFrame(lastCall.frame)
    /\ ~lastCall.answer.raised
    /\ lastCall.answer.sw1 = 144 /\ lastCall.answer.sw2 = 0
    /\ lastCall.answer.response = <<>>
    /\ lastCall.result = PyTuple(<<PyBool(TRUE), PyList(<<>>)>>)

(***************************************************************************)
(* C8: every caller of doTransmit in the dump engine tests the success     *)
(* flag of the returned (success, payload) pair, never the returned value  *)
(* as a whole, and treats the operation as succeeded exactly when that     *)
(* flag is true.                                                           *)
(***************************************************************************)
C8_CallersBranchOnSuccessFlag ==
    lastCall.made =>
        /\ CanUnpack2(lastCall.result)
        /\ lastCall.tested = lastCall.result.items[1]
        /\ lastCall.treatedOk <=> (lastCall.result.items[1] = PyBool(TRUE))

(***************************************************************************)
(* C9: for all b6, b7 in 0..255 and every block index i in 0..3,           *)
(* parseAccessBits(b6, b7)[i] = (bit2<<2)|(bit1<<1)|bit0 with bit2 = bit i *)
(* of (b6 XOR 0xFF), bit1 = bit i of (b7 XOR 0xFF) and bit0 = bit i+4 of   *)
(* (b7 XOR 0xFF).                                                          *)
(***************************************************************************)
C9_AccessCodeBits ==
    blockAcess # <<>> =>
        \A i \in Blocks :
            blockAcess[i] = 4 * BitOf(255 - b6, i)
                            + 2 * BitOf(255 - b7, i)
                            + BitOf(255 - b7, i + 4)

(***************************************************************************)
(* C10: for all b6, b7 in 0..255, parseAccessBits(b6, b7) returns exactly  *)
(* 4 values, each of them in 0..7.                                         *)
(***************************************************************************)
C10_AccessCodesInRange ==
    blockAcess # <<>> =>
        /\ DOMAIN blockAcess = 0..3
        /\ \A i \in DOMAIN blockAcess : blockAcess[i] \in 0..7

\* the access bytes of a factory-fresh trailer, decoded
C10_Witness ==
    /\ b6 = 255
    /\ b7 = 7
    /\ blockAcess # <<>>
    /\ blockAcess[3] = 1

(***************************************************************************)
(* C11: when key load, authenticate and all 4 block reads of a sector      *)
(* succeed and the read of block 3 returned 16 bytes, the sector's status  *)
(* is OK, its trailer status is OK, and the trailer fields are those       *)
(* bytes: accessBits = bytes 6..8, general-purpose byte = byte 9,          *)
(* keyB = bytes 10..15.                                                    *)
(***************************************************************************)
\* a read command for block k of sector s was transmitted and succeeded
ReadOk(s, k) ==
    \E i \in DOMAIN sent[s] :
        sent[s][i].frame = ReadFrame(s * 4 + k) /\ sent[s][i].ok

C11_TrailerFromBlock3 ==
    \A s \in Sectors :
        LET d == dump.sectors[s].blocks[3].data
            t == dump.sectors[s].trailer
        IN  (Authenticated(s) /\ (\A k \in Blocks : ReadOk(s, k)) /\ Len(d) = 16)
            => /\ dump.sectors[s].status = "OK"
               /\ t.status = "OK"
               /\ t.accessBits = <<d[7], d[8], d[9]>>
               /\ t.GPB = d[10]
               /\ t.keyB = <<d[11], d[12], d[13], d[14], d[15], d[16]>>

\* the trailer bytes 00x6 FF 07 80 69 12 34 56 78 9A BC, read from sector 0
C11_Witness ==
    /\ pc = "done"
    /\ Authenticated(0)
    /\ \A k \in Blocks : ReadOk(0, k)
    /\ dump.sectors[0].blocks[3].data
          = <<0, 0, 0, 0, 0, 0, 255, 7, 128, 105, 18, 52, 86, 120, 154, 188>>
    /\ dump.sectors[0].status = "OK"
    /\ dump.sectors[0].trailer.status = "OK"
    /\ dump.sectors[0].trailer.accessBits = <<255, 7, 128>>
    /\ dump.sectors[0].trailer.GPB = 105
    /\ dump.sectors[0].trailer.keyB = <<18, 52, 86, 120, 154, 188>>

C13_KeyANeverRead ==
    \A s \in Sectors : dump.sectors[s].trailer.keyA = <<255, 255, 255, 255, 255, 255>>

\* a trailer assembled from a block whose first 6 bytes differ from keyA
C13_Witness ==
    /\ pc = "done"
    /\ dump.sectors[15].trailer.status = "OK"
    /\ Len(dump.sectors[15].blocks[3].data) = 16
    /\ Slice(dump.sectors[15].blocks[3].data, 0, 6) # dump.sectors[15].trailer.keyA

(***************************************************************************)
(* C14: once the dump has returned, if sector 0's block 0 has status OK    *)
(* (and holds 16 bytes) then the head holds that block's bytes: UID =      *)
(* bytes 0..3, BCC = byte 4, manufacturer data = bytes 5..7, signature =   *)
(* bytes 8..15, whatever happened to any later block or sector.            *)
(***************************************************************************)
HeadOf(d) ==
    [UID |-> <<d[1], d[2], d[3], d[4]>>,
     BCC |-> d[5],
     SAK |-> <<d[6], d[7], d[8]>>,
     SIGN |-> <<d[9], d[10], d[11], d[12], d[13], d[14], d[15], d[16]>>]

C14_HeadFromBlock0 ==
    pc = "done" =>
        LET b == dump.sectors[0].blocks[0]
        IN  (b.status = "OK" /\ Len(b.data) = 16) => dump.head = HeadOf(b.data)

(***************************************************************************)
(* C15: the head is populated only from sector 0's block 0 and only when   *)
(* that block's status is OK: while that block is not OK, and after a dump *)
(* in which its read did not succeed, the head holds its default zero      *)
(* values; a head that differs from them holds bytes of that block.        *)
(***************************************************************************)
ZeroHead ==
    [UID |-> <<0, 0, 0, 0>>, BCC |-> 0, SAK |-> <<0, 0, 0>>,
     SIGN |-> <<0, 0, 0, 0, 0, 0, 0, 0>>]

C15_HeadOnlyFromOkBlock0 ==
    LET b == dump.sectors[0].blocks[0]
    IN  /\ b.status # "OK" => dump.head = ZeroHead
        /\ dump.head # ZeroHead =>
              /\ b.status = "OK"
              /\ dump.head.UID = Slice(b.data, 0, 4)
              /\ \/ Len(b.data) >= 16 /\ dump.head = HeadOf(b.data)
                 \/ /\ Len(b.data) < 16
                    /\ dump.head.SAK = (IF Len(b.data) > 4 THEN Slice(b.data, 5, 8) ELSE <<0, 0, 0>>)
                    /\ dump.head.SIGN
                          = (IF Len(b.data) > 4 THEN Slice(b.data, 8, 16) ELSE <<0, 0, 0, 0, 0, 0, 0, 0>>)

\* head.read ran on a block 0 that was never read
C15_Witness ==
    /\ pc = "done"
    /\ dump.status = "NOINIT"
    /\ dump.sectors[0].status = "AUTH_ERROR"
    /\ dump.sectors[0].blocks[0].status = "NOINIT"
    /\ dump.sectors[1].blocks[0].status = "OK"
    /\ dump.head = ZeroHead

(***************************************************************************)
(* C16: with firstSectorOnly = true, once the dump has returned sectors    *)
(* 1..15 are as in a fresh dump and no command was transmitted for them,   *)
(* and sector 0 is fully attempted: key load, then authenticate when key   *)
(* load succeeded, then a read attempt for each of its 4 blocks when both  *)
(* succeeded.                                                              *)
(***************************************************************************)
C16_FirstSectorOnly ==
    (pc = "done" /\ firstSectorOnly) =>
        /\ \A s \in Sectors \ {0} :
              /\ sent[s] = <<>>
              /\ dump.sectors[s].status = "NOINIT"
              /\ dump.sectors[s].trailer.status = "NOINIT"
              /\ \A k \in Blocks : dump.sectors[s].blocks[k].status = "NOINIT"
        /\ Len(sent[0]) >= 1 /\ IsLoadKeyFrame(sent[0][1].frame)
        /\ sent[0][1].ok => (Len(sent[0]) >= 2 /\ IsAuthFrame(sent[0][2].frame))
        /\ Authenticated(0) =>
              \A k \in Blocks :
                  \E i \in DOMAIN sent[0] : sent[0][i].frame = <<255, 176, 0, k, 16>>

C17_RaisingCall ==
    (sent' # sent /\ lastCall'.answer.raised) =>
        /\ \A t \in Sectors \ {iSector} : dump'.sectors[t] = dump.sectors[t]
        /\ dump'.head = dump.head
        /\ IF lastCall'.frame[2] = 176
           THEN /\ pc' = "done"
                /\ dump'.status = "READ_ERROR"
                /\ dump'.sectors[iSector] = dump.sectors[iSector]
           ELSE /\ pc' = "endSector"
                /\ dump'.status = dump.status
                /\ dump'.sectors[iSector]
                      = [dump.sectors[iSector] EXCEPT
                           !.status = IF lastCall'.frame[2] = 130
                                      THEN "KEY_ERROR" ELSE "AUTH_ERROR"]

C18_AlwaysReturns ==
    /\ pc \in {"loadKey", "auth", "read", "endSector", "head", "done"}
    /\ pc # "done" => ENABLED Next

\* the dump returned after transmit had raised during a read
C18_Witness ==
    /\ pc = "done"
    /\ lastCall.made
    /\ lastCall.answer.raised
    /\ lastCall.unpackRaised
    /\ dump.status = "READ_ERROR"

(***************************************************************************)
(* C19: dump_mifare_1k called with a key whose length is not exactly 6     *)
(* bytes transmits no frame at all.                                        *)
(***************************************************************************)
C19_BadKeyTransmitsNothing ==
    Len(keyA) # 6 => \A s \in Sectors : sent[s] = <<>>

C21_Step ==
    \A s \in Sectors : \A i \in Blocks :
        dump'.sectors[s].blocks[i] # dump.sectors[s].blocks[i] =>
            /\ dump.sectors[s].blocks[i] = NewBlock
            /\ s = iSector
            /\ sent' # sent
            /\ lastCall'.frame = <<255, 176, 0, s * 4 + i, 16>>
            /\ dump'.sectors[s].blocks[i].status = "OK" =>
                  /\ lastCall'.answer.sw1 = 144
                  /\ lastCall'.answer.sw2 = 0
                  /\ dump'.sectors[s].blocks[i].data = lastCall'.answer.response

C21_BlockHoldsOwnPayload == [][C21_Step]_vars

\* a full scan in which the read of block 9 returned only 8 bytes
C21_Witness ==
    /\ pc = "done"
    /\ dump.sectors[2].blocks[1].status = "OK"
    /\ dump.sectors[2].blocks[1].data = <<144, 145, 146, 147, 148, 149, 150, 151>>
    /\ dump.sectors[2].blocks[2].data
          = <<160, 161, 162, 163, 164, 165, 166, 167, 168, 169, 170, 171, 172, 173, 174, 175>>
    /\ dump.sectors[15].blocks[0].status = "OK"

(***************************************************************************)
(* C23: for every 3-byte access-bits value, accessBitsToStr returns        *)
(* exactly 4 entries, one per block index 0..3, and each entry is one of   *)
(* the 8 permission strings of the lookup table, never a missing value.    *)
(***************************************************************************)
C23_FourTableStrings ==
    resultStrBlocks # <<>> =>
        /\ DOMAIN resultStrBlocks = 0..3
        /\ \A i \in 0..3 :
              /\ resultStrBlocks[i] # PyNone
              /\ resultStrBlocks[i].type = "str"
              /\ resultStrBlocks[i].val \in
                    {"R(A,B) W(A,B) I(A,B) D(A,B)", "R(A,B) W(B,B) I(-) D(-)",
                     "R(A,B) W(B) I(A,B) D(A,B)", "R(B) W(B) I(-) D(-)",
                     "R(B) W(-) I(-,B) D(-,B)", "R(A,B) W(-,B) I(-) D(-)",
                     "R(A,B) W(-) I(-) D(-)"}

\* access bytes 00 00 80: every block decodes to the table's entry 0b101
C23_Witness ==
    /\ b6 = 0 /\ b7 = 0 /\ b8 = 128
    /\ resultStrBlocks # <<>>
    /\ \A i \in 0..3 : resultStrBlocks[i] = PyStr("R(B) W(-) I(-,B) D(-,B)")

(***************************************************************************)
(* C24: the wait for a card insertion always terminates: observerThread    *)
(* runs at most 12 polling cycles, then removes the observer, and          *)
(* startObserver returns, having reported a timeout when no card was       *)
(* processed.                                                              *)
(***************************************************************************)
C24_WaitTerminates ==
    /\ <>(mainPc = "returned")
    /\ [](n \in 0..12)
    /\ [](obsPc = "finished" => ~registered)
    /\ [](mainPc = "returned" =>
            /\ obsPc = "finished"
            /\ ~processedEvent => timeoutReported)

\* twelve cycles passed without a card, and the timeout was reported
C24_Witness ==
    /\ mainPc = "returned"
    /\ obsPc = "finished"
    /\ n = 0
    /\ ~registered
    /\ ~processedEvent
    /\ started = 0
    /\ timeoutReported

(***************************************************************************)
(* C25: at most one transaction runs at any time and only a running        *)
(* transaction holds the reader connection; every transaction was started  *)
(* by its own detected insertion, and none is started while another one,   *)
(* started by the watcher callback, is still running.                      *)
(***************************************************************************)
C25_OneTransactionAtATime ==
    /\ started - ended \in {0, 1}
    /\ started <= inserted
    /\ connection = "connected" => started - ended = 1
    /\ started - ended = 1 <=> monPc \in {"waitforcard", "connect", "dump", "except", "finally"}

\* a second insertion is being served after the first transaction has ended
C25_Witness ==
    /\ inserted = 2
    /\ started = 2
    /\ ended = 1
    /\ connection = "connected"
    /\ pc = "read"

(***************************************************************************)
(* C26: a transaction that connected to the reader has released the        *)
(* connection by the time sendRequest ends, when the dump completed and    *)
(* was rendered as well as when the connect or the rendering raised: the   *)
(* connection is held only between the connect and the finally clause.     *)
(***************************************************************************)
C26_ConnectionReleased ==
    /\ connection = "connected" => monPc \in {"dump", "except", "finally"}
    /\ started = ended => connection # "connected"
    /\ monPc = "set" => connection = "disconnected"

\* printDump raised on a trailer left without access bytes, and the
\* connection was released all the same
C26_Witness ==
    /\ monPc = "set"
    /\ connection = "disconnected"
    /\ dump.status = "READ_ERROR"
    /\ dump.sectors[0].trailer.accessBits = <<>>
    /\ printDumpRaises(dump, TRUE)

(***************************************************************************)
(* C27: no run of the program, dump or write, transmits a write-block      *)
(* frame (instruction 0xD6) addressed to a trailer block, an absolute      *)
(* address with address mod 4 = 3.                                         *)
(***************************************************************************)
IsTrailerWrite(frame) ==
    /\ Len(frame) >= 4
    /\ frame[2] = 214
    /\ frame[4] % 4 = 3

C27_NoTrailerWrite ==
    /\ \A s \in Sectors : \A i \in DOMAIN sent[s] : ~IsTrailerWrite(sent[s][i].frame)
    /\ \A i \in DOMAIN wsent : ~IsTrailerWrite(wsent[i].frame)

\* a write of the entire card has gone through all 16 sectors
C27_Witness ==
    /\ request.scope = "EntireCard"
    /\ wpc = "done"
    /\ \E i \in DOMAIN wsent : wsent[i].frame[2] = 214 /\ wsent[i].frame[4] = 62 /\ wsent[i].ok
    /\ \E i \in DOMAIN wsent : wsent[i].frame[2] = 214 /\ wsent[i].frame[4] = 0
    /\ \A i \in DOMAIN outcome : outcome[i].ok

(***************************************************************************)
(* C28: a write request with scope Block that targets block index 3 of its *)
(* sector is rejected by validation, and no frame is transmitted for it.   *)
(***************************************************************************)
C28_TrailerBlockRejected ==
    (request.scope = "Block" /\ request.nBlock = 3 /\ wpc # "validate") =>
        /\ wpc = "rejected"
        /\ wsent = <<>>
        /\ outcome = <<>>

\* the rejected request carries the right payload length for one block
C28_Witness ==
    /\ request = [scope |-> "Block", nSector |-> 7, nBlock |-> 3, payloadLen |-> 16]
    /\ wpc = "rejected"
    /\ wsent = <<>>

(***************************************************************************)
(* C29 as claimed: for EntireCard scope the write targets are the 3        *)
(* non-trailer blocks of every one of the 16 sectors, 45 blocks in total,  *)
(* and the required payload length is 16 bytes times that count.           *)
(***************************************************************************)
EntireCardAccepted ==
    request.scope = "EntireCard" /\ wpc \notin {"idle", "validate", "rejected"}

NonTrailerBlocks == {s * 4 + b : s \in 0..15, b \in 0..2}

C29_EntireCard45Blocks ==
    EntireCardAccepted =>
        /\ {targets[k] : k \in DOMAIN targets} = NonTrailerBlocks
        /\ Len(targets) = 45
        /\ request.payloadLen = 16 * 45

(***************************************************************************)
(* C29 as amended: for EntireCard scope the write targets are the 3        *)
(* non-trailer blocks of every one of the 16 sectors, each once, 48 blocks *)
(* in total, and the required payload length is 16 * 48 = 768 bytes: a     *)
(* request of that scope is accepted exactly when it carries 768 bytes.    *)
(***************************************************************************)
C29_EntireCard48Blocks ==
    /\ EntireCardAccepted =>
          /\ {targets[k] : k \in DOMAIN targets} = NonTrailerBlocks
          /\ Len(targets) = 48
          /\ Cardinality(NonTrailerBlocks) = 48
          /\ request.payloadLen = 768
    /\ (request.scope = "EntireCard" /\ wpc = "rejected") => request.payloadLen # 768

\* a whole-card request of 768 bytes was accepted and is being written
C29_Witness ==
    /\ request.scope = "EntireCard"
    /\ request.payloadLen = 768
    /\ wpc = "write"
    /\ Len(targets) = 48
    /\ iTarget = 48
    /\ targets[48] = 62

(***************************************************************************)
(* C30: a read command is transmitted for sector s only after the          *)
(* load-key and then the authenticate of block s*4 of that same sector     *)
(* iteration have succeeded, with no command of another sector in between; *)
(* the reads of a sector are issued in increasing address order, s*4,      *)
(* s*4+1, s*4+2, s*4+3, and the sectors are worked on in increasing index  *)
(* order: when a command is transmitted for sector t, no command has yet   *)
(* been transmitted for any later sector and none is ever transmitted      *)
(* again for an earlier one.                                               *)
(***************************************************************************)
C30_Step ==
    /\ iSector' >= iSector
    /\ \A t \in Sectors :
          sent'[t] # sent[t] =>
              /\ t = iSector
              /\ Len(sent'[t]) = Len(sent[t]) + 1
              /\ \A u \in Sectors : u > t => sent'[u] = <<>>
              /\ \A u \in Sectors : u # t => sent'[u] = sent[u]
              /\ LET k == Len(sent'[t])
                     f == sent'[t][k].frame
                 IN  /\ k = 1 <=> f[2] = 130
                     /\ k = 2 <=> f[2] = 134
                     /\ k >= 3 <=> f[2] = 176
                     /\ f[2] = 134 => (sent[t][1].ok /\ f[8] = t * 4)
                     /\ f[2] = 176 =>
                           /\ sent[t][1].ok
                           /\ sent[t][2].ok
                           /\ k <= 6
                           /\ f[4] = t * 4 + (k - 3)

C30_ReadsInOrder == [][C30_Step]_vars

\* a full scan: the last of its 96 commands is the read of block 63
C30_Witness ==
    /\ pc = "done"
    /\ ~firstSectorOnly
    /\ \A s \in Sectors : Len(sent[s]) = 6
    /\ sent[15][2].frame = <<255, 134, 0, 0, 5, 1, 0, 60, 96, 0>>
    /\ sent[15][3].frame = <<255, 176, 0, 60, 16>>
    /\ sent[15][6].frame = <<255, 176, 0, 63, 16>>

(***************************************************************************)
(* C31: in every reachable state of a dump every block's data is exactly   *)
(* 16 bytes long; in particular a block with status OK holds exactly 16    *)
(* bytes, whatever the length of the response that came with 90 00.        *)
(* Line 177 stores the response as it came: a block answered 90 00 with 8  *)
(* bytes, or with none, has status OK and that many bytes.                 *)
(***************************************************************************)
C31_BlockDataIs16Bytes ==
    \A s \in Sectors : \A k \in Blocks :
        Len(dump.sectors[s].blocks[k].data) = MIFARE_1K_bytes_per_block

(***************************************************************************)
(* C32: the permission string accessBitsToStr returns for block index 3,   *)
(* the trailer, is looked up in a table of its own (who may read and write *)
(* the keys and the access bits), distinct from the table of data blocks   *)
(* 0..2: it is never the data-block table's entry for the trailer's code.  *)
(* The source has the single table bitAccessMap and line 67 indexes it for *)
(* all four blocks, so the trailer gets the data-block string of its code. *)
(***************************************************************************)
C32_TrailerUsesOwnTable ==
    resultStrBlocks # <<>> =>
        LET codes == parseAccessBits(b6, b7)
        IN  resultStrBlocks[3] # DictGet(bitAccessMap, codes[3])

(***************************************************************************)
(* C33: the strings accessBitsToStr returns do not depend on the third     *)
(* access byte: for the bytes b6, b7 of the call, every other value of the *)
(* third byte gives the same 4 strings as the call gave.                   *)
(***************************************************************************)
C33_ThirdByteIgnored ==
    resultStrBlocks # <<>> =>
        \A other \in ThirdBytes :
            resultStrBlocks = accessBitsToStr(<<b6, b7, other>>)

\* a call whose third byte is not the complement pattern of the first two
C33_Witness ==
    /\ resultStrBlocks # <<>>
    /\ b6 = 255
    /\ b7 = 7
    /\ b8 = 255

(***************************************************************************)
(* C34: when the key load or the authenticate of a sector fails, the dump  *)
(* changes in that sector's status only: the head, the overall status and  *)
(* the other sectors are as before, the sector's 4 blocks have status      *)
(* NOINIT and 16 zero bytes, and its trailer has status NOINIT and its     *)
(* initial accessBits, general-purpose byte and keyB.                      *)
(***************************************************************************)
C34_Step ==
    (pc \in {"loadKey", "auth"} /\ pc' = "endSector") =>
        /\ dump'.sectors[iSector].status
              = (IF pc = "loadKey" THEN "KEY_ERROR" ELSE "AUTH_ERROR")
        /\ dump'.head = dump.head
        /\ dump'.status = dump.status
        /\ \A s \in Sectors \ {iSector} : dump'.sectors[s] = dump.sectors[s]
        /\ \A k \in Blocks :
              /\ dump'.sectors[iSector].blocks[k].status = "NOINIT"
              /\ dump'.sectors[iSector].blocks[k].data
                    = Zeros(MIFARE_1K_bytes_per_block)
        /\ dump'.sectors[iSector].trailer.status = "NOINIT"
        /\ dump'.sectors[iSector].trailer.accessBits = Zeros(3)
        /\ dump'.sectors[iSector].trailer.GPB = 0
        /\ dump'.sectors[iSector].trailer.keyB = MIFARE_1K_default_key

C34_FailureTouchesSectorStatusOnly == [][C34_Step]_vars

\* sector 1 failed its authenticate after sector 0 had been read
C34_Witness ==
    /\ dump.sectors[0].status = "OK"
    /\ dump.sectors[0].trailer.status = "OK"
    /\ dump.sectors[1].status = "AUTH_ERROR"
    /\ AuthFailed(1)
    /\ \A k \in Blocks : dump.sectors[1].blocks[k] = NewBlock
    /\ dump.sectors[1].trailer = NewTrailer

(***************************************************************************)
(* C35: in every reachable state of a dump a block's status is one of      *)
(* NOINIT, OK, READ_ERROR, a sector's status is one of NOINIT, OK,         *)
(* KEY_ERROR, AUTH_ERROR, READ_ERROR and a trailer's status is NOINIT or   *)
(* OK, and each of these values is reached for some behaviour of the       *)
(* transport: READ_ERROR, which lines 184 and 186 assign for a read that   *)
(* failed, is the status of a block whose read the transport failed, and   *)
(* of its sector once the dump has returned.                               *)
(* The ranges hold.  A failed read never reaches line 184: the unpacking   *)
(* at line 175 raises first, so no block and no sector ever has READ_ERROR *)
(* (ReadErrorUnreached is an invariant).                                   *)
(***************************************************************************)
C35_StatusValuesReached ==
    /\ \A s \in Sectors :
          /\ dump.sectors[s].status
                \in {"NOINIT", "OK", "KEY_ERROR", "AUTH_ERROR", "READ_ERROR"}
          /\ dump.sectors[s].trailer.status \in {"NOINIT", "OK"}
          /\ \A k \in Blocks :
                dump.sectors[s].blocks[k].status \in {"NOINIT", "OK", "READ_ERROR"}
    /\ \A s \in Sectors : \A k \in Blocks :
          ReadFailed(s, k) =>
              /\ dump.sectors[s].blocks[k].status = "READ_ERROR"
              /\ pc = "done" => dump.sectors[s].status = "READ_ERROR"

\* no block and no sector has status READ_ERROR
ReadErrorUnreached ==
    \A s \in Sectors :
        /\ dump.sectors[s].status # "READ_ERROR"
        /\ \A k \in Blocks : dump.sectors[s].blocks[k].status # "READ_ERROR"

\* the values that are reached: every one but READ_ERROR
StatusValuesSeen ==
    /\ pc = "done"
    /\ dump.sectors[0].status = "OK"
    /\ dump.sectors[0].blocks[0].status = "OK"
    /\ dump.sectors[0].trailer.status = "OK"
    /\ dump.sectors[1].status \in {"KEY_ERROR", "AUTH_ERROR"}
    /\ dump.sectors[1].trailer.status = "NOINIT"
    /\ dump.sectors[1].blocks[0].status = "NOINIT"

(***************************************************************************)
(* C36: dump_mifare_1k changes the dump's overall status only to           *)
(* READ_ERROR and only when an exception reached its outer handler, which  *)
(* ends the dump; after a dump in which no exception did, one in which     *)
(* every operation succeeded included, the overall status is still NOINIT, *)
(* and it is never OK.                                                     *)
(***************************************************************************)
\* what raises inside the try block: the unpacking of a failed read's
\* result, processLastBlock on a last block shorter than 10 bytes, head.read
\* on a block 0 shorter than 5 bytes (a dump that has returned with such a
\* block 0 was ended by head.read, or earlier by one of the other two)
C36_ExceptionReachedHandler ==
    \/ lastCall.made /\ lastCall.unpackRaised
    \/ /\ lastCall.made
       /\ IsReadFrame(lastCall.frame)
       /\ lastCall.frame[4] % MIFARE_1K_blocks_per_sector
             = MIFARE_1K_blocks_per_sector - 1
       /\ AnswerOk(lastCall.answer)
       /\ Len(lastCall.answer.response) < 10
    \/ /\ dump.sectors[0].blocks[0].status = "OK"
       /\ Len(dump.sectors[0].blocks[0].data) < 5

C36_OverallStatusOnlyReadError ==
    /\ dump.status \in {"NOINIT", "READ_ERROR"}
    /\ dump.status = "READ_ERROR" => pc = "done" /\ C36_ExceptionReachedHandler
    /\ (pc = "done" /\ ~C36_ExceptionReachedHandler) => dump.status = "NOINIT"

\* a dump of the whole card in which every operation succeeded has returned
C36_Witness ==
    /\ pc = "done"
    /\ ~firstSectorOnly
    /\ faults = 0
    /\ \A s \in Sectors :
          /\ dump.sectors[s].status = "OK"
          /\ dump.sectors[s].trailer.status = "OK"
          /\ \A k \in Blocks : dump.sectors[s].blocks[k].status = "OK"
    /\ dump.head.UID = Slice(CardBlock(0), 0, 4)
    /\ dump.status = "NOINIT"

(***************************************************************************)
(* C37: in every interleaving of the monitor's callback and the waiting    *)
(* threads, once an insertion has started a transaction while the observer *)
(* was registered, the wait does not end and no timeout is reported before *)
(* that transaction has finished and released the reader; a timeout is     *)
(* reported only when no transaction was started.                          *)
(* The loop of observerThread counts its 12 cycles whatever the callback   *)
(* is doing, and processedEvent is set only after sendRequest has          *)
(* returned: the wait ends and the timeout is reported while a transaction *)
(* holds the reader.                                                       *)
(***************************************************************************)
C37_WaitOutlastsTransaction ==
    /\ mainPc \in {"check", "returned"} =>
          /\ started = ended
          /\ connection # "connected"
    /\ timeoutReported => started = 0

============================================================================
